---- MODULE Spec2Model ----
(***************************************************************************)
(* A model of chunkymonkey's game coordinator (package chunkymonkey: Game,  *)
(* its command queue, the radius scans and the multicasts) and of the       *)
(* world store bootstrap (package worldstore: LoadWorldStore).              *)
(*                                                                          *)
(* Tasks of the game part: the producers that call Game.Enqueue (one        *)
(* session per player, one per pickup item, the timer), the single          *)
(* consumer Game.mainLoop, and the scanning goroutine that                  *)
(* Game.PlayersInRadius starts for every radius query.                      *)
(***************************************************************************)
EXTENDS Integers, Sequences, FiniteSets, TLC

VARIABLES
    mainQueue,      \* Game.mainQueue: the buffered channel's contents
    pending,        \* per producer: the command of an Enqueue call parked on a full queue
    players,        \* Game.players: EntityID -> player
    pickupItems,    \* Game.pickupItems: EntityID -> item
    entityManager,  \* Game.entityManager: [next, entities]
    time,           \* Game.time
    entityID,       \* Entity.EntityID of every player and item object
    position,       \* chunk position of every player and item object (ToChunkXZ)
    sess,           \* per player and item object: what its producer has submitted so far
    cur,            \* the command mainLoop is applying (f at line 158), NoCmd between commands
    pc,             \* where mainLoop is inside the command
    packet,         \* the packet the running multicast transmits (buf.Bytes())
    buf,            \* AddPlayer's second buffer (spawns of the existing players)
    scanState,      \* the scanning goroutine of PlayersInRadius: "none", "running", "closed"
    scanLoc,        \* the loc argument of the running scan
    scanVisited,    \* keys of game.players the scan's range loop has passed
    scanOffer,      \* the player the scan is blocked sending on c ("" when none)
    sent,           \* per player: the packets TransmitPacket was given, in order
    enqueued,       \* history: every command that entered the queue, in order
    applied,        \* history: every command mainLoop has finished, in order
    yielded,        \* history: how often the current scan has sent each player on c
    accessLog,      \* history: <<task, mode>> of every access to the protected state
    budget,         \* commands the producers may still submit (bounds the model)
    logged,         \* history: what log.Print was given ([conn, items], see NothingLogged)
    disk,           \* the chunk coordinates the world's persistent store holds
    world,          \* what LoadWorldStore returned: the WorldStore, NoWorld before and on error
    loadErr,        \* the err LoadWorldStore returned ("" for nil)
    serving,        \* the chunk services whose Serve goroutine was started
    genSeed,        \* the seed the procedural generator was constructed with
    chunkReq,       \* the request the composed chunk store is answering
    invoked,        \* history: <<tier, coord>> of every query made to a tier
    answers,        \* history: the answers of the composed chunk store
    reqBudget,      \* chunk requests still to be made (bounds the model)
    svcReq,         \* per chunk service: the coordinate of the request it has accepted
    svcAnswers,     \* history: <<service, chunk>> of every answer a service gave directly
    levelData,      \* history: the level data LoadWorldStore read (NoLevelData before)
    opLog           \* history: the WorldStore methods called, with their outcome

gameVars == <<mainQueue, pending, players, pickupItems, entityManager, time, entityID,
              position, sess, cur, pc, packet, buf, scanState, scanLoc, scanVisited,
              scanOffer, sent, enqueued, applied, yielded, accessLog, budget, logged>>

worldVars == <<disk, world, loadErr, serving, genSeed, chunkReq, invoked, answers,
               reqBudget, svcReq, svcAnswers, levelData, opLog>>

vars == <<gameVars, worldVars>>

(***************************************************************************)
(* Bounds of the model and constants of the program.                       *)
(***************************************************************************)
MaxCmds == 4
MaxBacklogCmds == 2
MaxRequests == 2
MaxFailures == 1
MaxMulticasts == 2
ChunkRadius == 1
QueueCap == 256
TickStep == 20

Players == {"A", "B", "C"}
Items == {"I"}
Entities == Players \cup Items
Timer == "timer"
Producers == Entities \cup {Timer}

\* Chunk positions the entities are created at, ChunkRadius + 1 apart on the x axis.
Chunks == {<<0, 0>>, <<ChunkRadius + 1, 0>>}
NoChunk == <<0 - 99, 0 - 99>>

NoCmd == [id |-> 0, op |-> "none", arg |-> ""]
Cmd(n, o, a) == [id |-> n, op |-> o, arg |-> a]

\* Packets are opaque byte buffers; the model keeps what each was built from.
Pkt(k, w, n) == [kind |-> k, who |-> w, num |-> n]
NoPkt == Pkt("none", "", 0)

\* range over a Go map visits every entry once, in no specified order.
Range(f) == {f[k] : k \in DOMAIN f}

(***************************************************************************)
(* Helpers.                                                                *)
(***************************************************************************)
\* m[k] = v of a Go map.
MapPut(m, k, v) == [x \in DOMAIN m \cup {k} |-> IF x = k THEN v ELSE m[x]]

\* m[k] = nil, false of a Go map (the removal idiom of line 117).
MapDelete(m, k) == [x \in DOMAIN m \ {k} |-> m[x]]

EmptyMap == [x \in {} |-> ""]

\* player.TransmitPacket(packet), n times: the bytes are appended to the
\* player's outbound stream.
RECURSIVE Repeat(_, _, _)
Repeat(s, pk, n) == IF n = 0 THEN s ELSE Repeat(Append(s, pk), pk, n - 1)

TransmitPacket(s, p, pk) == [s EXCEPT ![p] = Append(@, pk)]

\* EntityManager.AddEntity: the id the next registered entity gets, and the
\* manager afterwards.
AddEntity(em) == [next |-> em.next + 1, entities |-> em.entities \cup {em.next}]

\* EntityManager.RemoveEntity.
RemoveEntity(em, id) == [em EXCEPT !.entities = @ \ {id}]

\* The packets of the encode collaborators.
NamedEntitySpawn(p, id) == Pkt("spawn", p, id)
DestroyEntity(id) == Pkt("destroy", "", id)
ChatJoined(p) == Pkt("joined", p, 0)
ChatLeft(p) == Pkt("left", p, 0)
TimeUpdate(t) == Pkt("time", "", t)
PickupSpawn(id) == Pkt("pickup", "", id)

\* A MulticastPacket without the test of lines 138-140.
MulticastPacketAll(s, dir, pk, except) ==
    [p \in Players |-> Repeat(s[p], pk, Cardinality({k \in DOMAIN dir : dir[k] = p}))]

\* Game.MulticastPacket: the streams after the range over game.players.
MulticastPacket(s, dir, pk, except) ==
    [p \in Players |->
        IF p = except THEN s[p]
        ELSE Repeat(s[p], pk, Cardinality({k \in DOMAIN dir : dir[k] = p}))]

\* Game.SendChatMessage.
SendChatMessage(s, dir, msg) == MulticastPacket(s, dir, msg, "")

\* The test of PlayersInRadius's goroutine, with the bounds lines 205-208 compute.
InRadius(loc, p) ==
    LET minX == loc[1] - ChunkRadius
        minZ == loc[2] - ChunkRadius
        maxX == loc[1] + ChunkRadius + 1
        maxZ == loc[1] + ChunkRadius + 1
    IN  p[1] >= minX /\ p[1] <= maxX /\ p[2] >= minZ /\ p[2] <= maxZ

\* Game.PlayersInRadius up to its return: the channel is made and the scanning
\* goroutine started.
PlayersInRadius(loc) ==
    /\ scanState' = "running"
    /\ scanLoc' = loc
    /\ scanVisited' = {}
    /\ scanOffer' = ""
    /\ yielded' = [p \in Players |-> 0]

\* Game.PlayersInPlayerRadius.
PlayersInPlayerRadius(player) == PlayersInRadius(position[player])

Log(task, mode) == accessLog' = accessLog \cup {<<task, mode>>}

\* The errors given to log.Print: conn counts the connections Serve and Login
\* dropped, items holds the items whose WritePickupSpawn failed.
NothingLogged == [conn |-> 0, items |-> {}]

(***************************************************************************)
(* The producers.                                                          *)
(***************************************************************************)
Parked == {p \in Producers : pending[p] # NoCmd}

\* Commands are numbered in the order the Enqueue calls are made.
NextId == Len(enqueued) + Cardinality(Parked) + 1

\* The channel send of Game.Enqueue completing.
Send(c) ==
    /\ Len(mainQueue) < QueueCap
    /\ mainQueue' = Append(mainQueue, c)
    /\ enqueued' = Append(enqueued, c)

\* An Enqueue that gives up on a full queue (a select with a default case).
EnqueueOrDrop(prod, c) ==
    /\ pending[prod] = NoCmd
    /\ budget > 0
    /\ budget' = budget - 1
    /\ IF Len(mainQueue) < QueueCap
       THEN Send(c) /\ UNCHANGED pending
       ELSE UNCHANGED <<pending, mainQueue, enqueued>>

\* Game.Enqueue called by producer prod: the send completes at once, or the
\* caller parks on the full channel.
Enqueue(prod, c) ==
    /\ pending[prod] = NoCmd
    /\ budget > 0
    /\ budget' = budget - 1
    /\ IF Len(mainQueue) < QueueCap
       THEN Send(c) /\ UNCHANGED pending
       ELSE pending' = [pending EXCEPT ![prod] = c] /\ UNCHANGED <<mainQueue, enqueued>>

\* A parked Enqueue call completing once the consumer has freed a slot.
EnqueueResume(prod) ==
    /\ pending[prod] # NoCmd
    /\ Send(pending[prod])
    /\ pending' = [pending EXCEPT ![prod] = NoCmd]
    /\ UNCHANGED <<players, pickupItems, entityManager, time, entityID, position, sess,
                   cur, pc, packet, buf, scanState, scanLoc, scanVisited, scanOffer,
                   sent, applied, yielded, accessLog, budget, logged>>
    /\ UNCHANGED worldVars

consumerVars == <<players, pickupItems, entityManager, time, entityID, cur, pc, packet,
                  buf, scanState, scanLoc, scanVisited, scanOffer, sent, applied,
                  yielded, accessLog, logged, worldVars>>

\* Game.Login reaching StartPlayer: the session creates its player and submits
\* AddPlayer.
StartPlayer(p) ==
    /\ sess[p] = "new"
    /\ \E pos \in Chunks : position' = [position EXCEPT ![p] = pos]
    /\ sess' = [sess EXCEPT ![p] = "joined"]
    /\ Enqueue(p, Cmd(NextId, "AddPlayer", p))
    /\ UNCHANGED consumerVars

\* The session of a disconnecting player submits RemovePlayer.
StopPlayer(p) ==
    /\ sess[p] = "joined"
    /\ sess' = [sess EXCEPT ![p] = "left"]
    /\ Enqueue(p, Cmd(NextId, "RemovePlayer", p))
    /\ UNCHANGED <<position>>
    /\ UNCHANGED consumerVars

\* A dropped item is submitted with AddPickupItem.
DropItem(i) ==
    /\ sess[i] = "new"
    /\ \E pos \in Chunks : position' = [position EXCEPT ![i] = pos]
    /\ sess' = [sess EXCEPT ![i] = "dropped"]
    /\ Enqueue(i, Cmd(NextId, "AddPickupItem", i))
    /\ UNCHANGED consumerVars

\* A timer that calls game.tick() itself instead of submitting it.
timerDirect ==
    /\ budget > 0
    /\ budget' = budget - 1
    /\ time' = time + TickStep
    /\ sent' = MulticastPacket(sent, players, TimeUpdate(time'), "")
    /\ Log(Timer, "write")
    /\ UNCHANGED <<mainQueue, pending, players, pickupItems, entityManager, entityID,
                   position, sess, cur, pc, packet, buf, scanState, scanLoc, scanVisited,
                   scanOffer, enqueued, applied, yielded, logged, worldVars>>

\* Game.timer: one period of the ticker.
timer ==
    /\ Enqueue(Timer, Cmd(NextId, "tick", Timer))
    /\ UNCHANGED <<position, sess>>
    /\ UNCHANGED consumerVars

\* The variables a dropped connection leaves alone.
droppedVars == <<mainQueue, pending, players, pickupItems, entityManager, time, entityID,
                 position, sess, cur, pc, packet, buf, scanState, scanLoc, scanVisited,
                 scanOffer, sent, enqueued, applied, yielded, accessLog, budget, worldVars>>

\* Game.Serve, lines 72-77: Accept fails, the error is logged and the loop
\* continues with the next Accept.
AcceptFail ==
    /\ logged.conn < MaxFailures
    /\ logged' = [logged EXCEPT !.conn = @ + 1]
    /\ UNCHANGED droppedVars

\* A Login that logs the error of ReadHandshake or ReadLogin and goes on to
\* StartPlayer (the return after log.Print left out).
LoginNoReturn(p) ==
    /\ sess[p] = "new"
    /\ logged.conn < MaxFailures
    /\ logged' = [logged EXCEPT !.conn = @ + 1]
    /\ \E pos \in Chunks : position' = [position EXCEPT ![p] = pos]
    /\ sess' = [sess EXCEPT ![p] = "joined"]
    /\ Enqueue(p, Cmd(NextId, "AddPlayer", p))
    /\ UNCHANGED <<players, pickupItems, entityManager, time, entityID, cur, pc, packet,
                   buf, scanState, scanLoc, scanVisited, scanOffer, sent, applied,
                   yielded, accessLog, worldVars>>

\* Game.Login, lines 48-60, for the connection of client p: ReadHandshake or
\* ReadLogin fails, the error is logged and Login returns before StartPlayer;
\* the client may connect again.
LoginFail(p) ==
    /\ sess[p] = "new"
    /\ logged.conn < MaxFailures
    /\ logged' = [logged EXCEPT !.conn = @ + 1]
    /\ UNCHANGED droppedVars

(***************************************************************************)
(* The scanning goroutine of PlayersInRadius (lines 211-219).              *)
(***************************************************************************)
producerVars == <<mainQueue, pending, position, sess, enqueued, budget, logged, worldVars>>

\* A scan whose loop passes every player without sending it (c <- player left
\* out).
ScanNextSkip ==
    /\ scanState = "running"
    /\ scanOffer = ""
    /\ \E k \in DOMAIN players \ scanVisited : scanVisited' = scanVisited \cup {k}
    /\ Log("scan", "read")
    /\ UNCHANGED <<players, pickupItems, entityManager, time, entityID, cur, pc, packet,
                   buf, scanState, scanLoc, scanOffer, sent, applied, yielded>>
    /\ UNCHANGED producerVars

\* One iteration of the range over game.players: the player is tested and,
\* when it qualifies, the goroutine blocks sending it on c.
ScanNext ==
    /\ scanState = "running"
    /\ scanOffer = ""
    /\ \E k \in DOMAIN players \ scanVisited :
        /\ scanVisited' = scanVisited \cup {k}
        /\ scanOffer' = IF InRadius(scanLoc, position[players[k]]) THEN players[k] ELSE ""
    /\ Log("scan", "read")
    /\ UNCHANGED <<players, pickupItems, entityManager, time, entityID, cur, pc, packet,
                   buf, scanState, scanLoc, sent, applied, yielded>>
    /\ UNCHANGED producerVars

\* The range is exhausted: close(c), and the goroutine ends.
ScanClose ==
    /\ scanState = "running"
    /\ scanOffer = ""
    /\ DOMAIN players \ scanVisited = {}
    /\ scanState' = "closed"
    /\ Log("scan", "read")
    /\ UNCHANGED <<players, pickupItems, entityManager, time, entityID, cur, pc, packet,
                   buf, scanLoc, scanVisited, scanOffer, sent, applied, yielded>>
    /\ UNCHANGED producerVars

(***************************************************************************)
(* The consumer, Game.mainLoop, and the commands it applies.               *)
(***************************************************************************)
\* A receive that takes the newest command instead of the oldest.
DequeueNewest ==
    [f |-> mainQueue[Len(mainQueue)], rest |-> SubSeq(mainQueue, 1, Len(mainQueue) - 1)]

\* f := <-game.mainQueue
Dequeue == [f |-> Head(mainQueue), rest |-> Tail(mainQueue)]

\* mainLoop receives a command of kind op and calls it.
Take(op) ==
    /\ pc = "recv"
    /\ mainQueue # <<>>
    /\ Dequeue.f.op = op
    /\ mainQueue' = Dequeue.rest
    /\ UNCHANGED <<pending, position, sess, enqueued, budget, worldVars>>

\* The command returns to mainLoop.
Return(f) ==
    /\ applied' = Append(applied, f)
    /\ cur' = NoCmd
    /\ pc' = "recv"

\* The range over a closed channel is left: the channel, the scan's locals and
\* the packet of the multicast are dropped.
RangeLeave ==
    /\ scanState' = "none"
    /\ scanLoc' = NoChunk
    /\ scanVisited' = {}
    /\ scanOffer' = ""
    /\ yielded' = [p \in Players |-> 0]
    /\ packet' = NoPkt

\* A receive of the consumer's range over the scan's channel: the blocked send
\* completes.
RangeNext ==
    /\ scanState = "running"
    /\ scanOffer # ""
    /\ scanOffer' = ""
    /\ yielded' = [yielded EXCEPT ![scanOffer] = @ + 1]

\* A range over the scan's channel that the consumer may leave between two
\* receives (a break in the loop body), before the scan has closed.
RangeBreak == scanState \in {"running", "closed"} /\ scanOffer = ""

\* The range over the scan's channel ends: the channel is closed.
RangeEnd == scanState = "closed"

scanIdle == <<scanState, scanLoc, scanVisited, scanOffer, yielded>>

\* Game.sendTimeUpdate
sendTimeUpdate(t) == sent' = MulticastPacket(sent, players, TimeUpdate(t), "")

\* A tick that broadcasts the clock before advancing it.
tickSendFirst ==
    /\ sendTimeUpdate(time)
    /\ time' = time + TickStep

\* Game.tick
tick ==
    /\ time' = time + TickStep
    /\ sendTimeUpdate(time')

\* mainLoop applies a tick command.
ApplyTick ==
    /\ Take("tick")
    /\ tick
    /\ applied' = Append(applied, Dequeue.f)
    /\ Log("mainLoop", "write")
    /\ UNCHANGED <<players, pickupItems, entityManager, entityID, cur, pc, packet, buf,
                   logged>>
    /\ UNCHANGED scanIdle

\* An AddPlayer that inserts the player under the EntityID it had before
\* AddEntity assigned one (lines 87 and 88 swapped).
AddPlayerStaleKey(player) ==
    /\ entityManager' = AddEntity(entityManager)
    /\ entityID' = [entityID EXCEPT ![player] = entityManager.next]
    /\ players' = MapPut(players, entityID[player], player)
    /\ sent' = SendChatMessage(sent, players', ChatJoined(player))
    /\ packet' = NamedEntitySpawn(player, entityID'[player])
    /\ PlayersInPlayerRadius(player)
    /\ pc' = "AddPlayer:94"

\* An AddPlayer that sends the join message before it inserts the player
\* (lines 88 and 89 swapped).
AddPlayerChatFirst(player) ==
    /\ entityManager' = AddEntity(entityManager)
    /\ entityID' = [entityID EXCEPT ![player] = entityManager.next]
    /\ sent' = SendChatMessage(sent, players, ChatJoined(player))
    /\ players' = MapPut(players, entityID'[player], player)
    /\ packet' = NamedEntitySpawn(player, entityID'[player])
    /\ PlayersInPlayerRadius(player)
    /\ pc' = "AddPlayer:94"

\* Game.AddPlayer, lines 87-94, up to the range of MulticastRadiusPacket.
AddPlayer(player) ==
    /\ entityManager' = AddEntity(entityManager)
    /\ entityID' = [entityID EXCEPT ![player] = entityManager.next]
    /\ players' = MapPut(players, entityID'[player], player)
    /\ sent' = SendChatMessage(sent, players', ChatJoined(player))
    /\ packet' = NamedEntitySpawn(player, entityID'[player])
    /\ PlayersInPlayerRadius(player)
    /\ pc' = "AddPlayer:94"

ApplyAddPlayer ==
    /\ Take("AddPlayer")
    /\ AddPlayer(Dequeue.f.arg)
    /\ cur' = Dequeue.f
    /\ Log("mainLoop", "write")
    /\ UNCHANGED <<pickupItems, time, buf, applied, logged>>

\* Game.MulticastRadiusPacket, the body of its range loop.
MulticastRadiusPacket(sender) ==
    /\ RangeNext
    /\ sent' = IF scanOffer = sender THEN sent ELSE TransmitPacket(sent, scanOffer, packet)

RadiusPacketNext ==
    /\ pc \in {"AddPlayer:94", "RemovePlayer:115"}
    /\ MulticastRadiusPacket(cur.arg)
    /\ Log("mainLoop", "read")
    /\ UNCHANGED <<players, pickupItems, entityManager, time, entityID, cur, pc, packet,
                   buf, scanState, scanLoc, scanVisited, applied>>
    /\ UNCHANGED producerVars

\* Game.AddPlayer, lines 96-98: MulticastRadiusPacket has returned, the second
\* radius query starts.
AddPlayerQueryExisting ==
    /\ pc = "AddPlayer:94"
    /\ RangeEnd
    /\ buf' = <<>>
    /\ PlayersInPlayerRadius(cur.arg)
    /\ pc' = "AddPlayer:98"
    /\ Log("mainLoop", "read")
    /\ UNCHANGED <<players, pickupItems, entityManager, time, entityID, cur, packet,
                   sent, applied>>
    /\ UNCHANGED producerVars

\* Game.AddPlayer, lines 98-104, the body of the range loop.
AddPlayerExisting(player) ==
    /\ RangeNext
    /\ buf' = IF scanOffer = player THEN buf
              ELSE Append(buf, NamedEntitySpawn(scanOffer, entityID[scanOffer]))

AddPlayerExistingNext ==
    /\ pc = "AddPlayer:98"
    /\ AddPlayerExisting(cur.arg)
    /\ Log("mainLoop", "read")
    /\ UNCHANGED <<players, pickupItems, entityManager, time, entityID, cur, pc, packet,
                   scanState, scanLoc, scanVisited, sent, applied>>
    /\ UNCHANGED producerVars

\* Game.AddPlayer, line 105: the batched spawns go to the new player.
AddPlayerDone ==
    /\ pc = "AddPlayer:98"
    /\ RangeEnd
    /\ sent' = [sent EXCEPT ![cur.arg] = @ \o buf]
    /\ buf' = <<>>
    /\ RangeLeave
    /\ Return(cur)
    /\ Log("mainLoop", "read")
    /\ UNCHANGED <<players, pickupItems, entityManager, time, entityID>>
    /\ UNCHANGED producerVars

\* Game.RemovePlayer, lines 113-115, up to the range of MulticastRadiusPacket.
RemovePlayer(player) ==
    /\ packet' = DestroyEntity(entityID[player])
    /\ PlayersInPlayerRadius(player)
    /\ pc' = "RemovePlayer:115"

ApplyRemovePlayer ==
    /\ Take("RemovePlayer")
    /\ RemovePlayer(Dequeue.f.arg)
    /\ cur' = Dequeue.f
    /\ Log("mainLoop", "read")
    /\ UNCHANGED <<players, pickupItems, entityManager, time, entityID, buf, sent, applied,
                   logged>>

\* RemovePlayer without the erasure of line 117.
RemovePlayerKeep(player) ==
    /\ players' = players
    /\ entityManager' = RemoveEntity(entityManager, entityID[player])
    /\ sent' = SendChatMessage(sent, players', ChatLeft(player))

\* Game.RemovePlayer, lines 117-119.
RemovePlayerErase(player) ==
    /\ players' = MapDelete(players, entityID[player])
    /\ entityManager' = RemoveEntity(entityManager, entityID[player])
    /\ sent' = SendChatMessage(sent, players', ChatLeft(player))

RemovePlayerDone ==
    /\ pc = "RemovePlayer:115"
    /\ RangeEnd
    /\ RemovePlayerErase(cur.arg)
    /\ RangeLeave
    /\ Return(cur)
    /\ Log("mainLoop", "write")
    /\ UNCHANGED <<pickupItems, time, entityID, buf>>
    /\ UNCHANGED producerVars

\* An AddPickupItem that ends the process on a WritePickupSpawn error (log.Exit
\* in place of log.Print and return): mainLoop never gets to its next receive.
AddPickupItemExit(item, err) ==
    /\ entityManager' = AddEntity(entityManager)
    /\ entityID' = [entityID EXCEPT ![item] = entityManager.next]
    /\ pickupItems' = MapPut(pickupItems, entityID'[item], item)
    /\ IF err
       THEN /\ logged' = [logged EXCEPT !.items = @ \cup {item}]
            /\ cur' = Dequeue.f
            /\ pc' = "exit"
            /\ UNCHANGED <<applied, packet, scanState, scanLoc, scanVisited, scanOffer,
                           yielded>>
       ELSE /\ packet' = PickupSpawn(entityID'[item])
            /\ PlayersInRadius(position[item])
            /\ cur' = Dequeue.f
            /\ pc' = "AddPickupItem:133"
            /\ UNCHANGED <<applied, logged>>

\* Game.AddPickupItem, lines 123-133: err is what WritePickupSpawn returns.
AddPickupItem(item, err) ==
    /\ entityManager' = AddEntity(entityManager)
    /\ entityID' = [entityID EXCEPT ![item] = entityManager.next]
    /\ pickupItems' = MapPut(pickupItems, entityID'[item], item)
    /\ IF err
       THEN /\ logged' = [logged EXCEPT !.items = @ \cup {item}]
            /\ Return(Dequeue.f)
            /\ UNCHANGED <<packet, scanState, scanLoc, scanVisited, scanOffer, yielded>>
       ELSE /\ packet' = PickupSpawn(entityID'[item])
            /\ PlayersInRadius(position[item])
            /\ cur' = Dequeue.f
            /\ pc' = "AddPickupItem:133"
            /\ UNCHANGED <<applied, logged>>

ApplyAddPickupItem ==
    /\ Take("AddPickupItem")
    /\ \E err \in BOOLEAN : AddPickupItem(Dequeue.f.arg, err)
    /\ Log("mainLoop", "write")
    /\ UNCHANGED <<players, time, buf, sent>>

\* Game.MulticastChunkPacket, the body of its range loop.
MulticastChunkPacket ==
    /\ RangeNext
    /\ sent' = TransmitPacket(sent, scanOffer, packet)

ChunkPacketNext ==
    /\ pc = "AddPickupItem:133"
    /\ MulticastChunkPacket
    /\ Log("mainLoop", "read")
    /\ UNCHANGED <<players, pickupItems, entityManager, time, entityID, cur, pc, packet,
                   buf, scanState, scanLoc, scanVisited, applied>>
    /\ UNCHANGED producerVars

\* MulticastChunkPacket returns, and AddPickupItem with it.
AddPickupItemDone ==
    /\ pc = "AddPickupItem:133"
    /\ RangeEnd
    /\ RangeLeave
    /\ Return(cur)
    /\ UNCHANGED <<players, pickupItems, entityManager, time, entityID, buf, sent,
                   accessLog>>
    /\ UNCHANGED producerVars

(***************************************************************************)
(* The world store (package worldstore).                                   *)
(***************************************************************************)
\* Tags of the level data: Lookup of an absent path returns nil, and the type
\* assertion of lines 40-42, 56 and 68 fails on it.
Tag(t, v) == [type |-> t, value |-> v]
Absent == Tag("nil", 0)

LevelDatas ==
    [SpawnX : {Absent, Tag("Int", 0)},
     SpawnY : {Absent, Tag("Int", 64)},
     SpawnZ : {Absent, Tag("Int", 0)},
     Time : {Absent, Tag("Long", 6000)},
     RandomSeed : {Absent, Tag("Long", 42)}]

\* What rand.NewSource(time.Seconds()).Int63() may return.
RandomSeeds == {7, 9}

Coords == {<<0, 0>>, <<0, 1>>}

NoWorld == [loaded |-> FALSE, Seed |-> 0, Time |-> 0, SpawnPosition |-> <<0, 0, 0>>,
            chunkStores |-> <<>>]
NoReq == [coord |-> <<0, 0>>, tier |-> 0]
NoLevelData == [SpawnX |-> Absent, SpawnY |-> Absent, SpawnZ |-> Absent, Time |-> Absent,
                RandomSeed |-> Tag("unread", 0)]

\* The chunk services a WorldStore starts: the two tiers and the combinator of
\* LoadWorldStore, and the store of ChunkStoreForDimension.
Services == {"persistent", "generator", "multi", "dimension"}

NoWorldStore ==
    /\ world = NoWorld
    /\ loadErr = ""
    /\ serving = {}
    /\ genSeed = 0
    /\ chunkReq = NoReq
    /\ invoked = {}
    /\ answers = {}
    /\ reqBudget = MaxRequests
    /\ svcReq = [s \in Services |-> NoChunk]
    /\ svcAnswers = {}
    /\ levelData = NoLevelData
    /\ opLog = {}

\* The chunk a tier holds at a coordinate; src "none" is an absent chunk.
Chunk(src, coord, seed) == [src |-> src, coord |-> coord, seed |-> seed]

\* The answer of one tier: the persistent store has what is on disk, the
\* generator generates every chunk from its seed.
TierLoad(tier, coord) ==
    IF tier = "persistent"
    THEN IF coord \in disk THEN Chunk("persistent", coord, 0) ELSE Chunk("none", coord, 0)
    ELSE Chunk("generator", coord, genSeed)

\* The two appends of LoadWorldStore in the other order.
ChunkStoresGeneratorFirst == <<"generator", "persistent">>

\* The list LoadWorldStore builds at lines 60-74.
ChunkStores == <<"persistent", "generator">>

\* An error return of a LoadWorldStore that starts each store's service as
\* soon as the store is constructed, ahead of the checks.
LoadFailStarted(e) ==
    /\ loadErr' = e
    /\ serving' = serving \cup {ChunkStores[1]}
    /\ UNCHANGED <<world, genSeed>>

\* An error return of LoadWorldStore.
LoadFail(e) ==
    /\ loadErr' = e
    /\ UNCHANGED <<world, serving, genSeed>>

\* LoadWorldStore: ld is the level data read, openErr the failure of
\* loadLevelData, csErr the failure of ChunkStoreForLevel, rnd the random seed.
LoadWorldStore(ld, openErr, csErr, rnd) ==
    IF openErr THEN LoadFail("loadLevelData")
    ELSE IF ~(ld.SpawnX.type = "Int" /\ ld.SpawnY.type = "Int" /\ ld.SpawnZ.type = "Int")
    THEN LoadFail("Invalid map level data: does not contain Spawn{X,Y,Z}")
    ELSE IF csErr THEN LoadFail("ChunkStoreForLevel")
    ELSE LET timeTicks == IF ld.Time.type = "Long" THEN ld.Time.value ELSE 0
             seed == IF ld.RandomSeed.type = "Long" THEN ld.RandomSeed.value ELSE rnd
         IN  /\ genSeed' = seed
             /\ serving' = serving \cup {ChunkStores[i] : i \in 1 .. Len(ChunkStores)}
                                   \cup {"multi"}
             /\ world' = [loaded |-> TRUE, Seed |-> seed, Time |-> timeTicks,
                          SpawnPosition |-> <<ld.SpawnX.value, ld.SpawnY.value,
                                              ld.SpawnZ.value>>,
                          chunkStores |-> ChunkStores]
             /\ loadErr' = ""

Load ==
    /\ ~world.loaded
    /\ loadErr = ""
    /\ \E ld \in LevelDatas, openErr \in BOOLEAN, csErr \in BOOLEAN, rnd \in RandomSeeds :
           /\ LoadWorldStore(ld, openErr, csErr, rnd)
           /\ levelData' = IF openErr THEN NoLevelData ELSE ld
    /\ UNCHANGED <<disk, chunkReq, invoked, answers, reqBudget, svcReq, svcAnswers, opLog,
                   gameVars>>

\* A caller asks the composed chunk store (world.ChunkStore) for a chunk.
LoadChunk(coord) ==
    /\ world.loaded
    /\ "multi" \in serving
    /\ chunkReq = NoReq
    /\ reqBudget > 0
    /\ reqBudget' = reqBudget - 1
    /\ chunkReq' = [coord |-> coord, tier |-> 1]
    /\ UNCHANGED <<disk, world, loadErr, serving, genSeed, invoked, answers, svcReq,
                   svcAnswers, levelData, opLog, gameVars>>

\* The composed store asks its next tier: the first present chunk is the
\* answer, and a miss of every tier is a miss.
MultiStoreQuery ==
    /\ chunkReq # NoReq
    /\ IF chunkReq.tier > Len(world.chunkStores)
       THEN /\ answers' = answers \cup {Chunk("none", chunkReq.coord, 0)}
            /\ chunkReq' = NoReq
            /\ UNCHANGED invoked
       ELSE LET tier == world.chunkStores[chunkReq.tier]
                got == TierLoad(tier, chunkReq.coord)
            IN  /\ tier \in serving
                /\ invoked' = invoked \cup {<<tier, chunkReq.coord>>}
                /\ IF got.src # "none"
                   THEN /\ answers' = answers \cup {got}
                        /\ chunkReq' = NoReq
                   ELSE /\ chunkReq' = [chunkReq EXCEPT !.tier = @ + 1]
                        /\ UNCHANGED answers
    /\ UNCHANGED <<disk, world, loadErr, serving, genSeed, reqBudget, svcReq, svcAnswers,
                   levelData, opLog, gameVars>>

\* What the store behind a chunk service holds: the two tiers answer as
\* TierLoad says, the store of another dimension holds no chunk.
StoreLoad(s, coord) ==
    IF s = "dimension" THEN Chunk("none", coord, 0) ELSE TierLoad(s, coord)

\* A caller sends a request to one chunk service; the service's goroutine
\* accepts it.
Request(s, coord) ==
    /\ s \in serving \ {"multi"}
    /\ svcReq[s] = NoChunk
    /\ reqBudget > 0
    /\ reqBudget' = reqBudget - 1
    /\ svcReq' = [svcReq EXCEPT ![s] = coord]
    /\ UNCHANGED <<disk, world, loadErr, serving, genSeed, chunkReq, invoked, answers,
                   svcAnswers, levelData, opLog, gameVars>>

\* The stores served one after the other by a single task (store.Serve()
\* called without go): the first Serve never returns.
ServeInline(s) ==
    /\ s \in serving
    /\ s = ChunkStores[1]
    /\ svcReq[s] # NoChunk
    /\ svcAnswers' = svcAnswers \cup {<<s, StoreLoad(s, svcReq[s])>>}
    /\ svcReq' = [svcReq EXCEPT ![s] = NoChunk]
    /\ UNCHANGED <<disk, world, loadErr, serving, genSeed, chunkReq, invoked, answers,
                   reqBudget, levelData, opLog, gameVars>>

\* One turn of the goroutine of a chunk service (go store.Serve()): it answers
\* the request it has accepted.
Serve(s) ==
    /\ s \in serving
    /\ svcReq[s] # NoChunk
    /\ svcAnswers' = svcAnswers \cup {<<s, StoreLoad(s, svcReq[s])>>}
    /\ svcReq' = [svcReq EXCEPT ![s] = NoChunk]
    /\ UNCHANGED <<disk, world, loadErr, serving, genSeed, chunkReq, invoked, answers,
                   reqBudget, levelData, opLog, gameVars>>

\* A ChunkStoreForDimension that builds a new generator with a fresh seed for
\* the dimension and stores the seed in the WorldStore.
ChunkStoreForDimensionReseed(err) ==
    /\ world.loaded
    /\ opLog' = opLog \cup {<<"ChunkStoreForDimension", err>>}
    /\ serving' = IF err THEN serving ELSE serving \cup {"dimension"}
    /\ \E rnd \in RandomSeeds : world' = [world EXCEPT !.Seed = rnd]
    /\ UNCHANGED <<disk, loadErr, genSeed, chunkReq, invoked, answers, reqBudget,
                   svcReq, svcAnswers, levelData, gameVars>>

\* WorldStore.ChunkStoreForDimension: err is the failure of ChunkStoreForLevel.
ChunkStoreForDimension(err) ==
    /\ world.loaded
    /\ opLog' = opLog \cup {<<"ChunkStoreForDimension", err>>}
    /\ serving' = IF err THEN serving ELSE serving \cup {"dimension"}
    /\ UNCHANGED <<disk, world, loadErr, genSeed, chunkReq, invoked, answers, reqBudget,
                   svcReq, svcAnswers, levelData, gameVars>>

\* WorldStore.PlayerData: err is the failure of os.Open, gzip.NewReader or
\* nbt.Read; the WorldStore is only read.
PlayerData(err) ==
    /\ world.loaded
    /\ opLog' = opLog \cup {<<"PlayerData", err>>}
    /\ UNCHANGED <<disk, world, loadErr, serving, genSeed, chunkReq, invoked, answers,
                   reqBudget, svcReq, svcAnswers, levelData, gameVars>>

(***************************************************************************)
(* The game after NewGame, and its steps.                                  *)
(***************************************************************************)
NewGame ==
    /\ players = EmptyMap
    /\ pickupItems = EmptyMap
    /\ entityManager = [next |-> 0, entities |-> {}]
    /\ time = 0
    /\ pc = "recv"
    /\ cur = NoCmd

Fresh ==
    /\ pending = [p \in Producers |-> NoCmd]
    /\ entityID = [e \in Entities |-> 0]
    /\ position = [e \in Entities |-> NoChunk]
    /\ sess = [e \in Entities |-> "new"]
    /\ packet = NoPkt
    /\ buf = <<>>
    /\ scanState = "none"
    /\ scanLoc = NoChunk
    /\ scanVisited = {}
    /\ scanOffer = ""
    /\ yielded = [p \in Players |-> 0]
    /\ sent = [p \in Players |-> <<>>]
    /\ applied = <<>>
    /\ accessLog = {}
    /\ logged = NothingLogged

Init ==
    /\ NewGame
    /\ Fresh
    /\ mainQueue = <<>>
    /\ enqueued = <<>>
    /\ budget = MaxCmds
    /\ NoWorldStore
    /\ disk = {}

Next ==
    \/ \E p \in Players : StartPlayer(p)
    \/ \E p \in Players : StopPlayer(p)
    \/ \E i \in Items : DropItem(i)
    \/ timer
    \/ AcceptFail
    \/ \E p \in Players : LoginFail(p)
    \/ ApplyTick
    \/ ApplyAddPlayer
    \/ RadiusPacketNext
    \/ AddPlayerQueryExisting
    \/ AddPlayerExistingNext
    \/ AddPlayerDone
    \/ ApplyRemovePlayer
    \/ RemovePlayerDone
    \/ ApplyAddPickupItem
    \/ ChunkPacketNext
    \/ AddPickupItemDone
    \/ ScanNext
    \/ ScanClose

\* From Init the producers submit at most MaxCmds < QueueCap commands: no Enqueue
\* call ever parks, and EnqueueResume (a step of NextBacklog) has nothing to
\* resume.
Spec == Init /\ [][Next]_vars

\* The game after QueueCap - 1 periods of the timer in which mainLoop was not
\* scheduled: one free slot is left in the queue.
Backlog == [i \in 1 .. QueueCap - 1 |-> Cmd(i, "tick", Timer)]

InitBacklog ==
    /\ NewGame
    /\ Fresh
    /\ mainQueue = Backlog
    /\ enqueued = Backlog
    /\ budget = MaxBacklogCmds
    /\ NoWorldStore
    /\ disk = {}

NextBacklog ==
    \/ Next
    \/ \E prod \in Producers : EnqueueResume(prod)

SpecBacklog == InitBacklog /\ [][NextBacklog]_vars

\* The steps of mainLoop and of the scanning goroutine it waits for.  The Go
\* scheduler runs every runnable goroutine, and a sender parked on the channel
\* is woken when a receive frees a slot.
ConsumerNext ==
    \/ ApplyTick
    \/ ApplyAddPlayer
    \/ RadiusPacketNext
    \/ AddPlayerQueryExisting
    \/ AddPlayerExistingNext
    \/ AddPlayerDone
    \/ ApplyRemovePlayer
    \/ RemovePlayerDone
    \/ ApplyAddPickupItem
    \/ ChunkPacketNext
    \/ AddPickupItemDone
    \/ ScanNext
    \/ ScanClose

FairSpecBacklog ==
    /\ SpecBacklog
    /\ WF_vars(ConsumerNext)
    /\ WF_vars(\E prod \in Producers : EnqueueResume(prod))

\* The fresh game with mainLoop and the scanning goroutines scheduled fairly.
FairSpec == Spec /\ WF_vars(ConsumerNext)

(***************************************************************************)
(* Game.MulticastPacket on its own, called on any player directory.        *)
(***************************************************************************)
\* The player directories AddPlayer and RemovePlayer can leave: no player is
\* stored under two EntityIDs.
Directories ==
    {d \in UNION {[K -> Players] : K \in SUBSET (0 .. Cardinality(Players) - 1)} :
        \A j, k \in DOMAIN d : j # k => d[j] # d[k]}

Payloads == {ChatJoined("A"), TimeUpdate(TickStep)}

InitMulticast ==
    /\ players \in Directories
    /\ time \in {0, TickStep}
    /\ pickupItems = EmptyMap
    /\ entityManager = [next |-> Cardinality(Players), entities |-> DOMAIN players]
    /\ entityID = [e \in Entities |->
                     IF \E k \in DOMAIN players : players[k] = e
                     THEN CHOOSE k \in DOMAIN players : players[k] = e
                     ELSE 0]
    /\ pc = "recv"
    /\ cur = NoCmd
    /\ pending = [p \in Producers |-> NoCmd]
    /\ position = [e \in Entities |-> NoChunk]
    /\ sess = [e \in Entities |-> IF e \in Range(players) THEN "joined" ELSE "new"]
    /\ packet = NoPkt
    /\ buf = <<>>
    /\ scanState = "none"
    /\ scanLoc = NoChunk
    /\ scanVisited = {}
    /\ scanOffer = ""
    /\ yielded = [p \in Players |-> 0]
    /\ sent = [p \in Players |-> <<>>]
    /\ applied = <<>>
    /\ accessLog = {}
    /\ logged = NothingLogged
    /\ mainQueue = <<>>
    /\ enqueued = <<>>
    /\ budget = MaxMulticasts
    /\ NoWorldStore
    /\ disk = {}

\* A command calls game.MulticastPacket(pk, except); except is "" for nil.  The
\* call and its arguments are kept in cur and packet.
CallMulticastPacket(pk, except) ==
    /\ budget > 0
    /\ budget' = budget - 1
    /\ cur' = Cmd(budget, "MulticastPacket", except)
    /\ packet' = pk
    /\ sent' = MulticastPacket(sent, players, pk, except)
    /\ UNCHANGED <<mainQueue, pending, players, pickupItems, entityManager, time, entityID,
                   position, sess, pc, buf, scanState, scanLoc, scanVisited, scanOffer,
                   enqueued, applied, yielded, accessLog, logged, worldVars>>

NextMulticast == \E pk \in Payloads, except \in Players \cup {""} : CallMulticastPacket(pk, except)

SpecMulticast == InitMulticast /\ [][NextMulticast]_vars

(***************************************************************************)
(* The world store on its own.                                             *)
(***************************************************************************)
InitWorld ==
    /\ NewGame
    /\ Fresh
    /\ mainQueue = <<>>
    /\ enqueued = <<>>
    /\ budget = 0
    /\ NoWorldStore
    /\ disk \in SUBSET Coords

NextWorld ==
    \/ Load
    \/ \E coord \in Coords : LoadChunk(coord)
    \/ MultiStoreQuery
    \/ \E s \in Services, coord \in Coords : Request(s, coord)
    \/ \E s \in Services : Serve(s)
    \/ \E err \in BOOLEAN : ChunkStoreForDimension(err)
    \/ \E err \in BOOLEAN : PlayerData(err)

SpecWorld == InitWorld /\ [][NextWorld]_vars

(***************************************************************************)
(* Properties.                                                             *)
(***************************************************************************)
InSeq(x, s) == \E i \in 1 .. Len(s) : s[i] = x
Abs(n) == IF n < 0 THEN 0 - n ELSE n
CurSeq == IF cur = NoCmd THEN <<>> ELSE <<cur>>

\* C1: the commands that entered the queue are applied by mainLoop exactly
\* once and in the order they entered: at every moment the commands finished,
\* the one command being applied (if any) and the commands still queued make
\* up, in this order, the sequence of commands that entered the queue, and a
\* command is being applied exactly when mainLoop is not at its receive.
C1_Fifo ==
    /\ enqueued = applied \o CurSeq \o mainQueue
    /\ \A i, j \in 1 .. Len(enqueued) : i # j => enqueued[i].id # enqueued[j].id
    /\ (cur = NoCmd) <=> (pc = "recv")

\* Commands of three producers entered the queue: two are done, one is being
\* applied and one waits.
C1_Witness ==
    /\ Len(applied) >= 2
    /\ cur # NoCmd
    /\ Len(mainQueue) >= 1
    /\ Cardinality({enqueued[i].arg : i \in 1 .. Len(enqueued)}) >= 3

\* The player directory after applying the commands of s one after the other.
RECURSIVE Sequential(_)
Sequential(s) ==
    IF s = <<>> THEN {}
    ELSE LET before == Sequential(SubSeq(s, 1, Len(s) - 1))
             c == s[Len(s)]
         IN  IF c.op = "AddPlayer" THEN before \cup {c.arg}
             ELSE IF c.op = "RemovePlayer" THEN before \ {c.arg}
             ELSE before

\* Every producer's commands are in s in the order the producer submitted them.
ProducerOrder(s) ==
    \A i, j \in 1 .. Len(s) : (i < j /\ s[i].arg = s[j].arg) => s[i].id < s[j].id

AllApplied == pc = "recv" /\ mainQueue = <<>> /\ Parked = {}

\* C2: once every submitted command has been applied, the player directory
\* holds exactly the players that applying the commands one after the other,
\* in the order they entered the queue, leaves registered; that order keeps
\* every producer's own order; no player is in the directory twice.
C2_Linearizable ==
    AllApplied =>
        /\ Range(players) = Sequential(enqueued)
        /\ ProducerOrder(enqueued)
        /\ Cardinality(DOMAIN players) = Cardinality(Range(players))

\* Three sessions have submitted joins and one of them its leave, all applied.
C2_Witness ==
    /\ AllApplied
    /\ Len(enqueued) = MaxCmds
    /\ Cardinality(Range(players)) = 2
    /\ \E i \in 1 .. Len(applied) : applied[i].op = "RemovePlayer"

\* C3: the queue never holds more than QueueCap commands; a command given to
\* Enqueue enters the queue at once when there is room and otherwise stays
\* with its parked caller, unchanged, until it enters the queue; and whenever
\* callers are parked, a moment follows at which none is: every parked caller
\* is resumed.
C3_Backpressure ==
    /\ [](Len(mainQueue) <= QueueCap)
    /\ [][/\ budget' < budget =>
                IF Len(mainQueue) < QueueCap
                THEN Len(mainQueue') = Len(mainQueue) + 1 /\ pending' = pending
                ELSE /\ mainQueue' = mainQueue
                     /\ \E prod \in Producers :
                            /\ pending[prod] = NoCmd
                            /\ pending'[prod] # NoCmd
                            /\ \A q \in Producers \ {prod} : pending'[q] = pending[q]
           /\ \A prod \in Producers :
                (pending[prod] # NoCmd /\ pending'[prod] # pending[prod]) =>
                    /\ pending'[prod] = NoCmd
                    /\ mainQueue' = Append(mainQueue, pending[prod])]_vars
    /\ (Parked # {}) ~> (Parked = {})

\* A caller is parked on the full queue.
C3_Witness ==
    /\ Len(mainQueue) = QueueCap
    /\ Parked # {}

RangePcs == {"AddPlayer:94", "AddPlayer:98", "RemovePlayer:115", "AddPickupItem:133"}

Registered == Range(players) \cup Range(pickupItems)

\* C5: no two registered entities, players or pickup items, share an EntityID,
\* and every key of the two directories is the EntityID of the entity stored
\* under it (every player and item object is submitted to AddPlayer or
\* AddPickupItem once, by its own session).
C5_UniqueIds ==
    /\ \A k \in DOMAIN players : entityID[players[k]] = k
    /\ \A k \in DOMAIN pickupItems : entityID[pickupItems[k]] = k
    /\ \A e1, e2 \in Registered : e1 # e2 => entityID[e1] # entityID[e2]
    /\ DOMAIN players \cap DOMAIN pickupItems = {}
    /\ Cardinality(DOMAIN players) = Cardinality(Range(players))

\* Two players and an item are registered after a third player has left.
C5_Witness ==
    /\ pc = "recv"
    /\ Cardinality(DOMAIN players) = 2
    /\ Cardinality(DOMAIN pickupItems) = 1
    /\ entityManager.next = 3

\* The radius test of the specification: both axes within ChunkRadius.
WithinRadius(loc, p) == Abs(p[1] - loc[1]) <= ChunkRadius /\ Abs(p[2] - loc[2]) <= ChunkRadius

\* C6: a finished radius query around loc has yielded a registered player if
\* and only if the player's chunk is within ChunkRadius of loc on both axes.
C6_RadiusMembership ==
    scanState = "closed" =>
        \A p \in Range(players) : (yielded[p] > 0) <=> WithinRadius(scanLoc, position[p])

JustApplied(op, e) ==
    /\ pc = "recv"
    /\ applied # <<>>
    /\ applied[Len(applied)].op = op
    /\ applied[Len(applied)].arg = e

SpawnOf(p) == NamedEntitySpawn(p, entityID[p])

\* C7: when AddPlayer(b) has completed, a registered player a has been sent
\* b's spawn exactly when a's chunk is within ChunkRadius of b's, b has been
\* sent a's spawn exactly then, and b has not been sent its own spawn.
C7_MutualSpawn ==
    \A b \in Players :
        JustApplied("AddPlayer", b) =>
            /\ ~InSeq(SpawnOf(b), sent[b])
            /\ \A a \in Range(players) \ {b} :
                /\ InSeq(SpawnOf(b), sent[a]) <=> WithinRadius(position[b], position[a])
                /\ InSeq(SpawnOf(a), sent[b]) <=> WithinRadius(position[b], position[a])

\* C8: when RemovePlayer(b) has completed, every registered player that was
\* sent b's spawn has been sent the destroy of b's EntityID, b has been sent
\* none, and b is in neither the player directory nor the entity directory.
C8_DestroyAfterSpawn ==
    \A b \in Players :
        JustApplied("RemovePlayer", b) =>
            /\ \A a \in Range(players) :
                InSeq(SpawnOf(b), sent[a]) => InSeq(DestroyEntity(entityID[b]), sent[a])
            /\ ~InSeq(DestroyEntity(entityID[b]), sent[b])
            /\ b \notin Range(players)
            /\ entityID[b] \notin entityManager.entities

IsTick(c) == c.op = "tick"
IsTimeUpdate(pk) == pk.kind = "time"
NumTicks(s) == Len(SelectSeq(s, IsTick))
Increasing(s) == \A i, j \in 1 .. Len(s) : i < j => s[i].num < s[j].num

\* C9: the clock is TickStep times the number of ticks applied; it changes
\* only in the step that applies a tick, by exactly TickStep, and that step
\* sends every registered player, and nobody else, one time update carrying
\* the new clock; the time updates a player is sent strictly increase.
C9_Clock ==
    /\ [](/\ time = TickStep * NumTicks(applied)
          /\ \A p \in Players : Increasing(SelectSeq(sent[p], IsTimeUpdate)))
    /\ [][(time' # time \/ NumTicks(applied') # NumTicks(applied)) =>
            /\ time' = time + TickStep
            /\ NumTicks(applied') = NumTicks(applied) + 1
            /\ \A p \in Players :
                sent'[p] = IF p \in Range(players)
                           THEN Append(sent[p], TimeUpdate(time'))
                           ELSE sent[p]]_vars

\* A registered player has been sent the clock of the second tick.
C9_Witness ==
    /\ time = 2 * TickStep
    /\ \E p \in Range(players) :
        InSeq(TimeUpdate(TickStep), sent[p]) /\ InSeq(TimeUpdate(2 * TickStep), sent[p])

\* C10: the composed store asks the persistent tier first and the generator
\* second: the generator is asked for a coordinate only after the persistent
\* tier was, and never for a coordinate the persistent tier holds; the answer
\* for a coordinate on disk is the persistent chunk, and for any other
\* coordinate the generator's chunk for the seed of the WorldStore.
C10_TierPriority ==
    /\ \A q \in invoked : q[1] = "generator" =>
            /\ <<"persistent", q[2]>> \in invoked
            /\ q[2] \notin disk
    /\ \A a \in answers :
            a = IF a.coord \in disk
                THEN Chunk("persistent", a.coord, 0)
                ELSE Chunk("generator", a.coord, world.Seed)

\* One request was answered from disk and one by the generator.
C10_Witness ==
    /\ \E a \in answers : a.src = "persistent"
    /\ \E a \in answers : a.src = "generator"
    /\ \E q \in invoked : q[1] = "generator"

\* A request is pending somewhere other than on service t: accepted by another
\* service, or being answered by the combinator.
PendingElsewhere(t) ==
    \/ \E s \in serving \ {t} : svcReq[s] # NoChunk
    \/ (t # "multi" /\ chunkReq # NoReq)

MissingSpawn == "Invalid map level data: does not contain Spawn{X,Y,Z}"
SpawnFields == {"SpawnX", "SpawnY", "SpawnZ"}
LacksSpawn(ld) == \E f \in SpawnFields : ld[f].type # "Int"

\* C12: when LoadWorldStore has read level data that lacks SpawnX, SpawnY or
\* SpawnZ, it has returned the missing-field error; whenever it has returned
\* an error it has returned no WorldStore and no chunk service is started;
\* services are started only by a load that succeeded, and after a successful
\* load the persistent tier, the generator and the combinator are all started.
C12_LoadErrors ==
    /\ (levelData # NoLevelData /\ LacksSpawn(levelData)) => loadErr = MissingSpawn
    /\ loadErr # "" => (world = NoWorld /\ serving = {})
    /\ serving # {} => world.loaded
    /\ world.loaded => (loadErr = "" /\ {"persistent", "generator", "multi"} \subseteq serving)

\* LoadWorldStore has failed on level data that holds SpawnX and SpawnZ but
\* no SpawnY.
C12_Witness ==
    /\ loadErr = MissingSpawn
    /\ levelData.SpawnX.type = "Int"
    /\ levelData.SpawnY = Absent
    /\ levelData.SpawnZ.type = "Int"

\* C18: after a successful load the Seed of the WorldStore is the RandomSeed
\* of the level data when it holds one and else one value of the random
\* source, the generator was constructed with that same seed, and Time is the
\* Time of the level data or 0 when it holds none; a load that read level
\* data with all three spawn fields fails only in ChunkStoreForLevel, whether
\* or not Time and RandomSeed are there; and once loaded, no step (PlayerData,
\* ChunkStoreForDimension, chunk requests) changes the Seed or the seed of
\* the generator.
C18_SeedFixed ==
    /\ [](world.loaded =>
            /\ levelData.RandomSeed.type = "Long" => world.Seed = levelData.RandomSeed.value
            /\ levelData.RandomSeed.type # "Long" => world.Seed \in RandomSeeds
            /\ genSeed = world.Seed
            /\ world.Time = IF levelData.Time.type = "Long" THEN levelData.Time.value ELSE 0)
    /\ []((levelData # NoLevelData /\ ~LacksSpawn(levelData) /\ loadErr # "") =>
            loadErr = "ChunkStoreForLevel")
    /\ [][world.loaded =>
            (world'.loaded /\ world'.Seed = world.Seed /\ genSeed' = genSeed)]_vars

\* A WorldStore loaded from level data without Time and RandomSeed, on which
\* PlayerData and ChunkStoreForDimension have been called with success.
C18_Witness ==
    /\ world.loaded
    /\ levelData.RandomSeed = Absent
    /\ levelData.Time = Absent
    /\ world.Time = 0
    /\ {<<"PlayerData", FALSE>>, <<"ChunkStoreForDimension", FALSE>>} \subseteq opLog
    /\ "dimension" \in serving

\* An AddPlayer command for p has been given to Enqueue.
Submitted(p) ==
    \/ \E i \in 1 .. Len(enqueued) : enqueued[i].op = "AddPlayer" /\ enqueued[i].arg = p
    \/ pending[p].op = "AddPlayer"

\* C13: a step in which Serve or Login drops a connection (an error is
\* logged) starts no player and submits no command, and leaves the queue and
\* the consumer as they are; an AddPlayer command exists for a player exactly
\* when a Login of that player reached StartPlayer; and after failures the
\* acceptor still takes a connection of every client not yet logged in, and
\* the consumer still takes the next command.
C13_FailedConnections ==
    /\ [][logged'.conn # logged.conn =>
            /\ sess' = sess /\ position' = position
            /\ mainQueue' = mainQueue /\ pending' = pending /\ enqueued' = enqueued
            /\ players' = players /\ pc' = pc /\ cur' = cur]_vars
    /\ [](\A p \in Players : Submitted(p) <=> sess[p] # "new")
    /\ [](logged.conn > 0 =>
            /\ \A p \in Players : (sess[p] = "new" /\ budget > 0) => ENABLED StartPlayer(p)
            /\ (pc = "recv" /\ mainQueue # <<>>) => ENABLED ConsumerNext)

\* After a dropped connection two players have joined and a third client has
\* not logged in yet.
C13_Witness ==
    /\ logged.conn = MaxFailures
    /\ Cardinality(Range(players)) = 2
    /\ \E p \in Players : sess[p] = "new"
    /\ budget > 0

WasApplied(op, e) == \E n \in 1 .. Len(applied) : applied[n].op = op /\ applied[n].arg = e

\* C14: once AddPickupItem(i) has been applied the item is registered with the
\* entity manager and stored in the item directory under its EntityID, also
\* when WritePickupSpawn failed; and when AddPickupItem(i) has just completed,
\* a player has been sent the item's spawn exactly when WritePickupSpawn
\* succeeded and the player is registered with its chunk within ChunkRadius
\* of the item's chunk on both axes.
C14_PickupItem ==
    \A i \in Items :
        /\ WasApplied("AddPickupItem", i) =>
                /\ entityID[i] \in entityManager.entities
                /\ entityID[i] \in DOMAIN pickupItems
                /\ pickupItems[entityID[i]] = i
        /\ JustApplied("AddPickupItem", i) =>
                \A p \in Players :
                    InSeq(PickupSpawn(entityID[i]), sent[p]) <=>
                        /\ i \notin logged.items
                        /\ p \in Range(players)
                        /\ WithinRadius(position[i], position[p])

\* C15: mainLoop is always at its receive or inside a command, never ended;
\* the step in which WritePickupSpawn fails returns to the receive; and, with
\* mainLoop and the scans scheduled fairly, every command that entered the
\* queue is eventually applied: again and again a moment comes at which all
\* commands entered so far have been applied, whatever failed before.
C15_EveryCommandApplied ==
    /\ [](pc \in {"recv"} \cup RangePcs)
    /\ [][logged'.items # logged.items => (pc' = "recv" /\ cur' = NoCmd)]_vars
    /\ []<>(applied = enqueued)

\* A command that entered the queue after an AddPickupItem whose
\* WritePickupSpawn failed has been applied.
C15_Witness ==
    \E n, m \in 1 .. Len(applied) :
        /\ n < m
        /\ applied[n].op = "AddPickupItem"
        /\ applied[n].arg \in logged.items

\* C16: a call MulticastPacket(payload, except) appends the payload once to
\* the stream of every player of the directory other than except and leaves
\* every other stream as it was; with except nil every player of the
\* directory gets it; the directory and the clock are unchanged.
C16_MulticastPacket ==
    [][(cur' # cur /\ cur'.op = "MulticastPacket") =>
        /\ \A p \in Players :
                sent'[p] = IF p \in Range(players) /\ p # cur'.arg
                           THEN Append(sent[p], packet')
                           ELSE sent[p]
        /\ players' = players
        /\ time' = time]_vars

\* MulticastPacket was called on a directory of three players with one of
\* them excepted, and before that with nil.
C16_Witness ==
    /\ cur.op = "MulticastPacket"
    /\ cur.arg \in Range(players)
    /\ Cardinality(Range(players)) = Cardinality(Players)
    /\ Len(sent[cur.arg]) = 1
    /\ \A p \in Players \ {cur.arg} : Len(sent[p]) = MaxMulticasts

\* C17: the step in which mainLoop starts AddPlayer(b) leaves b in the
\* directory and appends the join message of b to the stream of every player
\* then in the directory, b included, and to no other stream; the step in
\* which RemovePlayer(b) completes leaves b out of the directory and appends
\* the leave message of b to the stream of every player then in the
\* directory and to no other stream, so not to b's.
C17_ChatOrder ==
    [][/\ (pc = "recv" /\ pc' = "AddPlayer:94") =>
            /\ cur'.arg \in Range(players')
            /\ \A p \in Players :
                    sent'[p] = IF p \in Range(players')
                               THEN Append(sent[p], ChatJoined(cur'.arg))
                               ELSE sent[p]
       /\ (pc = "RemovePlayer:115" /\ pc' = "recv") =>
            /\ cur.arg \notin Range(players')
            /\ Range(players') = Range(players) \ {cur.arg}
            /\ \A p \in Players :
                    sent'[p] = IF p \in Range(players')
                               THEN Append(sent[p], ChatLeft(cur.arg))
                               ELSE sent[p]]_vars

\* Player b joined next to a registered player a and has left again: both
\* were sent b's join message, and a alone b's leave message.
C17_Witness ==
    \E a, b \in Players :
        /\ a # b
        /\ JustApplied("RemovePlayer", b)
        /\ a \in Range(players)
        /\ InSeq(ChatJoined(b), sent[a]) /\ InSeq(ChatJoined(b), sent[b])
        /\ InSeq(ChatLeft(b), sent[a]) /\ ~InSeq(ChatLeft(b), sent[b])

\* The players a scan around loc sends: the registered players that pass the
\* test of its loop.
Qualifying(loc) == {p \in Range(players) : InRadius(loc, position[p])}

\* C19: a scan sends no player twice, and when it has closed its channel it
\* has sent every player that passed its test exactly once and no other
\* player; a running scan ends only by closing its channel; and with fair
\* scheduling every running scan closes its channel: the scan is never left
\* blocked on a send, and the consumer's range over the channel ends.
C19_ScansTerminate ==
    /\ [](\A p \in Players : yielded[p] <= 1)
    /\ [](scanState = "closed" =>
            \A p \in Players : yielded[p] = IF p \in Qualifying(scanLoc) THEN 1 ELSE 0)
    /\ [][(scanState = "running" /\ scanState' # "running") => scanState' = "closed"]_vars
    /\ (scanState = "running") ~> (scanState = "closed")

\* The second query of an AddPlayer has closed after sending one of the
\* registered players and passing over another.
C19_Witness ==
    /\ pc = "AddPlayer:98"
    /\ scanState = "closed"
    /\ \E p \in Range(players) : yielded[p] = 1
    /\ \E p \in Range(players) : yielded[p] = 0
    /\ Cardinality(Range(players)) = Cardinality(Players)

\* C20: no step changes the player directory while a scan is running; the
\* consumer leaves a range over a scan's channel (moves on in its command or
\* returns) only when the scan has closed the channel; a step that writes the
\* directory and starts a scan starts it after the write, the scan having
\* read nothing; and a scan is started only when no scan is running, so there
\* is never more than one.
C20_ScanExclusion ==
    /\ [][scanState = "running" => players' = players]_vars
    /\ [][(pc \in RangePcs /\ pc' # pc) => scanState = "closed"]_vars
    /\ [][(players' # players /\ scanState' = "running") => scanVisited' = {}]_vars
    /\ [][(pc' # pc /\ pc' \in RangePcs) =>
            (scanState # "running" /\ scanState' = "running" /\ scanVisited' = {})]_vars
    /\ [](scanState # "none" => pc \in RangePcs)

\* Inside RemovePlayer the scan has passed one of two registered players and
\* is blocked sending it, with the erasure of line 117 still to come.
C20_Witness ==
    /\ pc = "RemovePlayer:115"
    /\ scanState = "running"
    /\ scanVisited # {}
    /\ scanOffer # ""
    /\ Cardinality(DOMAIN players) >= 2

====
